---- MODULE Spec2Model ----
(***************************************************************************)
(* The baps3d TCP connection server (netsrv/server.go): the Run goroutine  *)
(* with its main loop, the acceptor goroutine, and the three goroutines    *)
(* newClient starts for each connection (socket reader RunTx, socket       *)
(* writer RunRx, protocol adapter Run).  Unbuffered channel operations are *)
(* rendezvous: one step of the receiver that also advances the sender.     *)
(* The comm package (Controller, Client handle, Bifrost adapter) and the   *)
(* bifrost package are not part of the sources; what the server needs of   *)
(* them is modelled from the specification.                                *)
(***************************************************************************)
EXTENDS Naturals, FiniteSets, Sequences

\* Connections the listener may hand out in one run.
MaxConns == 2
\* Lines the peers send in one run (all connections together).
MaxLines == 1
\* Responses the Controller and the adapters emit in one run.
MaxResp == 1
\* Copies of the root Client handle in one run of the Controller.
MaxCopies == 2
\* Requests submitted to the Controller in one run.
MaxReqs == 2
\* Items of the Controller's list.
ListLen == 2
\* Calls of Shutdown in one run of the Controller.
MaxShutdowns == 2

Conns == 1..MaxConns

\* The inbound lines a peer can send, by what bifrost.LineToMessage makes of them.
Lines == {"wellformed", "malformed"}

VARIABLES
    runPc,      \* position of the goroutine running Server.Run
    ln,         \* the listener: "unopened", "failed", "open", "closed"
    done,       \* Server.done is closed
    clients,    \* Server.clients, the live-connection set
    wg,         \* Server.wg counter
    accPc,      \* position of the acceptor goroutine
    accHeld,    \* the connection the acceptor is forwarding (0: none)
    nAccepted,  \* connections Accept has returned so far
    lateConns,  \* connections Accept returned when done was already closed
    conn,       \* per connection, the socket: "none", "open", "closed"
    closes,     \* per connection, the number of conn.Close() calls
    txPc,       \* per connection, position of the goroutine running RunTx
    rxPc,       \* per connection, position of the goroutine running RunRx
    bfPc,       \* per connection, position of the goroutine running conBifrost.Run
    ctlShut,    \* the Controller has shut down (every handle's Done has fired)
    shutReqs,   \* calls of rootClient.Shutdown()
    emitted,    \* responses emitted so far
    linesRead,  \* lines read so far
    handles,    \* the Client handles attached to the Controller (0: the root)
    reqQueue,   \* the Controller's request queue
    items,      \* the Controller's list, as the hashes of its items
    selection,  \* the selected index (0-based)
    autoMode,   \* the Controller's AutoMode
    hRx,        \* per handle, the Responses delivered on its Rx, in order
    doneFires,  \* per handle, how often its Done has fired
    emitSeq,    \* Responses the Controller has emitted
    submitted   \* requests submitted so far

vars == <<runPc, ln, done, clients, wg, accPc, accHeld, nAccepted,
          lateConns, conn, closes, txPc, rxPc, bfPc, ctlShut,
          shutReqs, emitted, linesRead, handles, reqQueue, items, selection,
          autoMode, hRx, doneFires, emitSeq, submitted>>

srvVars == <<runPc, ln, done, clients, shutReqs>>
accVars == <<accPc, accHeld, nAccepted, lateConns>>
envVars == <<emitted, linesRead>>
\* The Controller's own state (list/controller.go), which the server never touches.
listVars == <<handles, reqQueue, items, selection, autoMode, hRx, doneFires,
              emitSeq, submitted>>
\* The server's state, which the Controller never touches.
netVars == <<runPc, ln, done, clients, wg, accPc, accHeld, nAccepted, lateConns,
             conn, closes, txPc, rxPc, bfPc, emitted, linesRead>>

Handles == 0..MaxCopies

\* The hashes of list items (opaque fingerprints).
Hashes == {"h1", "h2", "h3"}

\* The AutoMode values.
AutoModes == {"off", "drop", "next"}

----
\* The comm and bifrost packages, as the server uses them.

\* rootClient.Copy() fails once the Controller has shut down.
CopyFails == ctlShut

\* A handle's Done has fired (the root handle and every copy alike).
DoneFired == ctlShut

\* bifrost.LineToMessage(line) returns an error.
LineToMessageFails(line) == line = "malformed"

\* The adapter of connection c has closed its outbound channel conBifrost.Rx.
RxChanClosed(c) == bfPc[c] = "exit"

----
\* The server right after New.
NetInit ==
    /\ runPc = "start"
    /\ ln = "unopened"
    /\ done = FALSE
    /\ clients = {}
    /\ wg = 0
    /\ accPc = "none"
    /\ accHeld = 0
    /\ nAccepted = 0
    /\ lateConns = {}
    /\ conn = [c \in Conns |-> "none"]
    /\ closes = [c \in Conns |-> 0]
    /\ txPc = [c \in Conns |-> "none"]
    /\ rxPc = [c \in Conns |-> "none"]
    /\ bfPc = [c \in Conns |-> "none"]
    /\ ctlShut = FALSE
    /\ shutReqs = 0
    /\ emitted = 0
    /\ linesRead = 0

\* The Controller as the server model sees it: only its root handle and
\* whether it has shut down matter there.
ListIdle ==
    /\ handles = {0}
    /\ reqQueue = <<>>
    /\ items = <<>>
    /\ selection = 0
    /\ autoMode = "off"
    /\ hRx = [h \in Handles |-> <<>>]
    /\ doneFires = [h \in Handles |-> 0]
    /\ emitSeq = 0
    /\ submitted = 0

Init == NetInit /\ ListIdle

----
\* client.Close: closes the socket and nothing else.
Close(c) ==
    /\ conn' = [conn EXCEPT ![c] = "closed"]
    /\ closes' = [closes EXCEPT ![c] = @ + 1]

\* hangUpClient gone wrong: closes the client, then empties the whole set.
hangUpClientClearsSet(c) ==
    /\ Close(c)
    /\ clients' = {}

\* Server.hangUpClient: close the client, delete it from the set.
hangUpClient(c) ==
    /\ Close(c)
    /\ clients' = clients \ {c}

\* newClient gone wrong: the error of Copy is ignored, the connection
\* registered and its goroutines started all the same.
newClientIgnoresCopyError(c) ==
    /\ clients' = clients \cup {c}
    /\ wg' = wg + 3
    /\ txPc' = [txPc EXCEPT ![c] = "read"]
    /\ rxPc' = [rxPc EXCEPT ![c] = "recv"]
    /\ bfPc' = [bfPc EXCEPT ![c] = "run"]
    /\ UNCHANGED <<conn, closes>>

\* newClient gone wrong: when Copy fails it returns the error without closing
\* the connection.
newClientLeaksOnCopyError(c) ==
    IF CopyFails
    THEN UNCHANGED <<conn, closes, clients, wg, txPc, rxPc, bfPc>>
    ELSE /\ clients' = clients \cup {c}
         /\ wg' = wg + 3
         /\ txPc' = [txPc EXCEPT ![c] = "read"]
         /\ rxPc' = [rxPc EXCEPT ![c] = "recv"]
         /\ bfPc' = [bfPc EXCEPT ![c] = "run"]
         /\ UNCHANGED <<conn, closes>>

\* Server.newClient on connection c, called by mainLoop.
newClient(c) ==
    IF CopyFails
    THEN /\ Close(c)
         /\ UNCHANGED <<clients, wg, txPc, rxPc, bfPc>>
    ELSE /\ clients' = clients \cup {c}
         /\ wg' = wg + 3
         /\ txPc' = [txPc EXCEPT ![c] = "read"]
         /\ rxPc' = [rxPc EXCEPT ![c] = "recv"]
         /\ bfPc' = [bfPc EXCEPT ![c] = "run"]
         /\ UNCHANGED <<conn, closes>>

----
\* Server.Run

\* net.Listen succeeds: the acceptor goroutine is started, mainLoop entered.
RunListen ==
    /\ runPc = "start"
    /\ ln' = "open"
    /\ wg' = wg + 1
    /\ accPc' = "accept"
    /\ runPc' = "main"
    /\ UNCHANGED <<listVars, done, clients, shutReqs, accHeld, nAccepted, lateConns,
                   conn, closes, txPc, rxPc, bfPc, ctlShut, envVars>>

\* Run gone wrong: shutdownController is not deferred, so the early return
\* on a failed net.Listen goes straight to the deferred s.wg.Wait().
RunListenFailNoShutdown ==
    /\ runPc = "start"
    /\ ln' = "failed"
    /\ runPc' = "wait"
    /\ UNCHANGED <<listVars, done, clients, shutReqs, wg, accVars,
                   conn, closes, txPc, rxPc, bfPc, ctlShut, envVars>>

\* net.Listen fails: Run returns through its deferred calls.
RunListenFail ==
    /\ runPc = "start"
    /\ ln' = "failed"
    /\ runPc' = "shutdown"
    /\ UNCHANGED <<listVars, done, clients, shutReqs, wg, accVars,
                   conn, closes, txPc, rxPc, bfPc, ctlShut, envVars>>

\* Run gone wrong: s.done is not closed before hangUpAllClients.
RunCloseDoneSkipped ==
    /\ runPc = "closeDone"
    /\ runPc' = "hangUpAll"
    /\ UNCHANGED <<listVars, ln, done, clients, shutReqs, wg, accVars,
                   conn, closes, txPc, rxPc, bfPc, ctlShut, envVars>>

\* close(s.done), after mainLoop has returned.
RunCloseDone ==
    /\ runPc = "closeDone"
    /\ done' = TRUE
    /\ runPc' = "hangUpAll"
    /\ UNCHANGED <<listVars, ln, clients, shutReqs, wg, accVars,
                   conn, closes, txPc, rxPc, bfPc, ctlShut, envVars>>

\* One iteration of hangUpAllClients' range over s.clients.
RunHangUp(c) ==
    /\ runPc = "hangUpAll"
    /\ c \in clients
    /\ hangUpClient(c)
    /\ UNCHANGED <<listVars, runPc, ln, done, shutReqs, wg, accVars,
                   txPc, rxPc, bfPc, ctlShut, envVars>>

\* Run gone wrong: ln.Close() before hangUpAllClients.
RunCloseLnBeforeHangUp ==
    /\ runPc = "hangUpAll"
    /\ ln' = "closed"
    /\ runPc' = "shutdown"
    /\ UNCHANGED <<listVars, done, clients, shutReqs, wg, accVars,
                   conn, closes, txPc, rxPc, bfPc, ctlShut, envVars>>

\* The range is over; ln.Close().
RunCloseLn ==
    /\ runPc = "hangUpAll"
    /\ clients = {}
    /\ ln' = "closed"
    /\ runPc' = "shutdown"
    /\ UNCHANGED <<listVars, done, clients, shutReqs, wg, accVars,
                   conn, closes, txPc, rxPc, bfPc, ctlShut, envVars>>

\* Deferred shutdownController: rootClient.Shutdown().
shutdownController ==
    /\ runPc = "shutdown"
    /\ shutReqs' = shutReqs + 1
    /\ ctlShut' = TRUE
    /\ runPc' = "wait"
    /\ UNCHANGED <<listVars, ln, done, clients, wg, accVars,
                   conn, closes, txPc, rxPc, bfPc, envVars>>

\* Deferred s.wg.Wait() returns, and Run with it.
RunWait ==
    /\ runPc = "wait"
    /\ wg = 0
    /\ runPc' = "returned"
    /\ UNCHANGED <<listVars, ln, done, clients, shutReqs, wg, accVars,
                   conn, closes, txPc, rxPc, bfPc, ctlShut, envVars>>

----
\* Server.mainLoop: the cases of its select.

\* mainLoop gone wrong: the accept error is logged and the loop goes on.
MainAccErrGoesOn ==
    /\ runPc = "main"
    /\ accPc = "sendErr"
    /\ accPc' = "close"
    /\ UNCHANGED <<listVars, srvVars, wg, accHeld, nAccepted, lateConns,
                   conn, closes, txPc, rxPc, bfPc, ctlShut, envVars>>

\* case err := <-s.accErr
MainAccErr ==
    /\ runPc = "main"
    /\ accPc = "sendErr"
    /\ accPc' = "close"
    /\ runPc' = "closeDone"
    /\ UNCHANGED <<listVars, ln, done, clients, shutReqs, wg, accHeld, nAccepted, lateConns,
                   conn, closes, txPc, rxPc, bfPc, ctlShut, envVars>>

\* case conn := <-s.accConn
MainAccConn ==
    /\ runPc = "main"
    /\ accPc = "sendConn"
    /\ newClient(accHeld)
    /\ accPc' = "accept"
    /\ accHeld' = 0
    /\ UNCHANGED <<listVars, runPc, ln, done, shutReqs, nAccepted, lateConns,
                   ctlShut, envVars>>

\* case c := <-s.clientHangUp
MainHangUp(c) ==
    /\ runPc = "main"
    /\ txPc[c] = "hangup"
    /\ hangUpClient(c)
    /\ txPc' = [txPc EXCEPT ![c] = "wgdone"]
    /\ UNCHANGED <<listVars, runPc, ln, done, shutReqs, wg, accVars,
                   rxPc, bfPc, ctlShut, envVars>>

\* case <-s.rootClient.Rx: a response to the root handle is drained.
MainDrain ==
    /\ runPc = "main"
    /\ ~ctlShut
    /\ emitted < MaxResp
    /\ emitted' = emitted + 1
    /\ UNCHANGED <<listVars, srvVars, wg, accVars, conn, closes, txPc, rxPc, bfPc,
                   ctlShut, linesRead>>

\* case <-s.rootClient.Done
MainDone ==
    /\ runPc = "main"
    /\ DoneFired
    /\ runPc' = "closeDone"
    /\ UNCHANGED <<listVars, ln, done, clients, shutReqs, wg, accVars,
                   conn, closes, txPc, rxPc, bfPc, ctlShut, envVars>>

----
\* Server.acceptClients

\* ln.Accept() returns the next connection.
AccAccept ==
    /\ accPc = "accept"
    /\ ln = "open"
    /\ nAccepted < MaxConns
    /\ nAccepted' = nAccepted + 1
    /\ accHeld' = nAccepted + 1
    /\ conn' = [conn EXCEPT ![nAccepted + 1] = "open"]
    /\ lateConns' = IF done THEN lateConns \cup {nAccepted + 1} ELSE lateConns
    /\ accPc' = "sendConn"
    /\ UNCHANGED <<listVars, srvVars, wg, closes, txPc, rxPc, bfPc, ctlShut, envVars>>

\* ln.Accept() fails on the open listener.
AccAcceptFail ==
    /\ accPc = "accept"
    /\ ln = "open"
    /\ accPc' = "sendErr"
    /\ UNCHANGED <<listVars, srvVars, wg, accHeld, nAccepted, lateConns, conn, closes,
                   txPc, rxPc, bfPc, ctlShut, envVars>>

\* ln.Accept() fails because the listener has been closed.
AccAcceptClosed ==
    /\ accPc = "accept"
    /\ ln = "closed"
    /\ accPc' = "sendErr"
    /\ UNCHANGED <<listVars, srvVars, wg, accHeld, nAccepted, lateConns, conn, closes,
                   txPc, rxPc, bfPc, ctlShut, envVars>>

\* The acceptor gone wrong: it does not wait at its select (a default case)
\* and closes its channels whether or not anyone took the error.
AccErrNoWait ==
    /\ accPc = "sendErr"
    /\ accPc' = "close"
    /\ UNCHANGED <<listVars, srvVars, wg, accHeld, nAccepted, lateConns, conn, closes,
                   txPc, rxPc, bfPc, ctlShut, envVars>>

\* select { case s.accErr <- err: (see MainAccErr) case <-s.done: }
AccErrDone ==
    /\ accPc = "sendErr"
    /\ done
    /\ accPc' = "close"
    /\ UNCHANGED <<listVars, srvVars, wg, accHeld, nAccepted, lateConns, conn, closes,
                   txPc, rxPc, bfPc, ctlShut, envVars>>

\* close(s.accErr); close(s.accConn); return; then s.wg.Done() in Run's closure.
AccClose ==
    /\ accPc = "close"
    /\ accPc' = "exit"
    /\ wg' = wg - 1
    /\ UNCHANGED <<listVars, srvVars, accHeld, nAccepted, lateConns, conn, closes,
                   txPc, rxPc, bfPc, ctlShut, envVars>>

\* The acceptor gone wrong: a plain s.accConn <- conn, not raced against done.
AccConnNoRace ==
    /\ FALSE
    /\ UNCHANGED vars

\* The acceptor gone wrong: on done the connection is dropped without Close.
AccConnDoneDrops ==
    /\ accPc = "sendConn"
    /\ done
    /\ accHeld' = 0
    /\ accPc' = "accept"
    /\ UNCHANGED <<listVars, srvVars, wg, nAccepted, lateConns, conn, closes,
                   txPc, rxPc, bfPc, ctlShut, envVars>>

\* select { case s.accConn <- conn: (see MainAccConn) case <-s.done: conn.Close() }
AccConnDone ==
    /\ accPc = "sendConn"
    /\ done
    /\ Close(accHeld)
    /\ accHeld' = 0
    /\ accPc' = "accept"
    /\ UNCHANGED <<listVars, srvVars, wg, nAccepted, lateConns,
                   txPc, rxPc, bfPc, ctlShut, envVars>>

----
\* client.RunTx and the goroutine newClient wraps around it

\* r.ReadLine() returns a line; bifrost.LineToMessage parses it or fails.
TxReadLine(c, line) ==
    /\ txPc[c] = "read"
    /\ conn[c] = "open"
    /\ linesRead < MaxLines
    /\ linesRead' = linesRead + 1
    /\ txPc' = [txPc EXCEPT ![c] = IF LineToMessageFails(line) THEN "hangup" ELSE "send"]
    /\ UNCHANGED <<listVars, srvVars, wg, accVars, conn, closes, rxPc, bfPc, ctlShut, emitted>>

\* r.ReadLine() fails on the open socket (the peer went away, an I/O error).
TxReadErr(c) ==
    /\ txPc[c] = "read"
    /\ conn[c] = "open"
    /\ txPc' = [txPc EXCEPT ![c] = "hangup"]
    /\ UNCHANGED <<listVars, srvVars, wg, accVars, conn, closes, rxPc, bfPc, ctlShut, envVars>>

\* r.ReadLine() fails because the server has closed the socket.
TxReadClosed(c) ==
    /\ txPc[c] = "read"
    /\ conn[c] = "closed"
    /\ txPc' = [txPc EXCEPT ![c] = "hangup"]
    /\ UNCHANGED <<listVars, srvVars, wg, accVars, conn, closes, rxPc, bfPc, ctlShut, envVars>>

\* c.conBifrost.Send(*msg) hands the message to the adapter, which either
\* passes a request on to the Controller or answers with a response of its own.
TxSend(c, reply) ==
    /\ txPc[c] = "send"
    /\ bfPc[c] = "run"
    /\ txPc' = [txPc EXCEPT ![c] = "read"]
    /\ IF reply
       THEN /\ emitted < MaxResp
            /\ emitted' = emitted + 1
            /\ bfPc' = [bfPc EXCEPT ![c] = "fwd"]
       ELSE UNCHANGED <<emitted, bfPc>>
    /\ UNCHANGED <<listVars, srvVars, wg, accVars, conn, closes, rxPc, ctlShut, linesRead>>

\* c.conBifrost.Send(*msg) returns false: the client died.
TxSendDied(c) ==
    /\ txPc[c] = "send"
    /\ DoneFired
    /\ txPc' = [txPc EXCEPT ![c] = "hangup"]
    /\ UNCHANGED <<listVars, srvVars, wg, accVars, conn, closes, rxPc, bfPc, ctlShut, envVars>>

\* The reader goroutine gone wrong: a plain s.clientHangUp <- &cli, not raced
\* against done.
TxHangUpNoRace(c) ==
    /\ FALSE
    /\ UNCHANGED vars

\* select { case s.clientHangUp <- &cli: (see MainHangUp) case <-s.done: }
TxHangUpDone(c) ==
    /\ txPc[c] = "hangup"
    /\ done
    /\ txPc' = [txPc EXCEPT ![c] = "wgdone"]
    /\ UNCHANGED <<listVars, srvVars, wg, accVars, conn, closes, rxPc, bfPc, ctlShut, envVars>>

\* s.wg.Done() ending the socket reader goroutine.
TxExit(c) ==
    /\ txPc[c] = "wgdone"
    /\ txPc' = [txPc EXCEPT ![c] = "exit"]
    /\ wg' = wg - 1
    /\ UNCHANGED <<listVars, srvVars, accVars, conn, closes, rxPc, bfPc, ctlShut, envVars>>

----
\* client.RunRx and the goroutine newClient wraps around it

\* for m := range c.conBifrost.Rx: the adapter's send is received.
RxRecv(c) ==
    /\ rxPc[c] = "recv"
    /\ bfPc[c] = "fwd"
    /\ rxPc' = [rxPc EXCEPT ![c] = "pack"]
    /\ bfPc' = [bfPc EXCEPT ![c] = "run"]
    /\ UNCHANGED <<listVars, srvVars, wg, accVars, conn, closes, txPc, ctlShut, envVars>>

\* m.Pack(): on an error, continue.
RxPack(c, ok) ==
    /\ rxPc[c] = "pack"
    /\ rxPc' = [rxPc EXCEPT ![c] = IF ok THEN "write" ELSE "recv"]
    /\ UNCHANGED <<listVars, srvVars, wg, accVars, conn, closes, txPc, bfPc, ctlShut, envVars>>

\* c.conn.Write(mbytes) succeeds.
RxWrite(c) ==
    /\ rxPc[c] = "write"
    /\ conn[c] = "open"
    /\ rxPc' = [rxPc EXCEPT ![c] = "recv"]
    /\ UNCHANGED <<listVars, srvVars, wg, accVars, conn, closes, txPc, bfPc, ctlShut, envVars>>

\* The RunRx loop ends and RunRx returns; s.wg.Done().
RxStop(c) ==
    /\ rxPc' = [rxPc EXCEPT ![c] = "exit"]
    /\ wg' = wg - 1

\* RunRx gone wrong: on a write error the writer hangs its client up itself.
RxWriteErrHangsUp(c) ==
    /\ rxPc[c] = "write"
    /\ conn[c] = "open"
    /\ RxStop(c)
    /\ hangUpClient(c)
    /\ UNCHANGED <<listVars, runPc, ln, done, shutReqs, accVars, txPc, bfPc, ctlShut, envVars>>

\* c.conn.Write(mbytes) fails on the open socket: break.
RxWriteErr(c) ==
    /\ rxPc[c] = "write"
    /\ conn[c] = "open"
    /\ RxStop(c)
    /\ UNCHANGED <<listVars, srvVars, accVars, conn, closes, txPc, bfPc, ctlShut, envVars>>

\* c.conn.Write(mbytes) fails because the server has closed the socket: break.
RxWriteClosed(c) ==
    /\ rxPc[c] = "write"
    /\ conn[c] = "closed"
    /\ RxStop(c)
    /\ UNCHANGED <<listVars, srvVars, accVars, conn, closes, txPc, bfPc, ctlShut, envVars>>

\* The range ends: conBifrost.Rx has been closed.
RxClosed(c) ==
    /\ rxPc[c] = "recv"
    /\ RxChanClosed(c)
    /\ RxStop(c)
    /\ UNCHANGED <<listVars, srvVars, accVars, conn, closes, txPc, bfPc, ctlShut, envVars>>

----
\* conBifrost.Run and the goroutine newClient wraps around it

\* A response of the Controller arrives on the handle's Rx; the adapter
\* turns to forwarding it on its outbound channel.
BfResponse(c) ==
    /\ bfPc[c] = "run"
    /\ ~ctlShut
    /\ emitted < MaxResp
    /\ emitted' = emitted + 1
    /\ bfPc' = [bfPc EXCEPT ![c] = "fwd"]
    /\ UNCHANGED <<listVars, srvVars, wg, accVars, conn, closes, txPc, rxPc, ctlShut, linesRead>>

\* The handle's Done has fired: the adapter closes its outbound channel and
\* returns; s.wg.Done().
BfDone(c) ==
    /\ bfPc[c] \in {"run", "fwd"}
    /\ DoneFired
    /\ bfPc' = [bfPc EXCEPT ![c] = "exit"]
    /\ wg' = wg - 1
    /\ UNCHANGED <<listVars, srvVars, accVars, conn, closes, txPc, rxPc, ctlShut, envVars>>

----
\* The Controller is shut down by someone other than the server.
CtlShutdown ==
    /\ ~ctlShut
    /\ ctlShut' = TRUE
    /\ UNCHANGED <<listVars, srvVars, wg, accVars, conn, closes, txPc, rxPc, bfPc, envVars>>

----
Next ==
    \/ RunListen
    \/ RunListenFail
    \/ RunCloseDone
    \/ \E c \in Conns : RunHangUp(c)
    \/ RunCloseLn
    \/ shutdownController
    \/ RunWait
    \/ MainAccErr
    \/ MainAccConn
    \/ \E c \in Conns : MainHangUp(c)
    \/ MainDrain
    \/ MainDone
    \/ AccAccept
    \/ AccAcceptFail
    \/ AccAcceptClosed
    \/ AccErrDone
    \/ AccClose
    \/ AccConnDone
    \/ \E c \in Conns, line \in Lines : TxReadLine(c, line)
    \/ \E c \in Conns : TxReadErr(c)
    \/ \E c \in Conns : TxReadClosed(c)
    \/ \E c \in Conns, reply \in BOOLEAN : TxSend(c, reply)
    \/ \E c \in Conns : TxSendDied(c)
    \/ \E c \in Conns : TxHangUpDone(c)
    \/ \E c \in Conns : TxExit(c)
    \/ \E c \in Conns : RxRecv(c)
    \/ \E c \in Conns, ok \in BOOLEAN : RxPack(c, ok)
    \/ \E c \in Conns : RxWrite(c)
    \/ \E c \in Conns : RxWriteErr(c)
    \/ \E c \in Conns : RxWriteClosed(c)
    \/ \E c \in Conns : RxClosed(c)
    \/ \E c \in Conns : BfResponse(c)
    \/ \E c \in Conns : BfDone(c)
    \/ CtlShutdown

Spec == Init /\ [][Next]_vars

\* The steps of each goroutine that wait for nothing outside the server.  The
\* steps that wait for the peer, the network or the Controller's clients
\* (Accept on the open listener, ReadLine and Write on an open socket,
\* responses, an outside shutdown) are left out: nothing forces them.
RunStep ==
    \/ RunListen \/ RunListenFail \/ RunCloseDone \/ RunCloseLn
    \/ shutdownController \/ RunWait \/ MainAccErr \/ MainDone
    \/ \E c \in Conns : RunHangUp(c) \/ MainHangUp(c)

AccStep == AccAcceptClosed \/ AccErrDone \/ AccClose \/ AccConnDone

TxStep(c) == TxReadClosed(c) \/ TxSendDied(c) \/ TxHangUpDone(c) \/ TxExit(c)

RxStep(c) == RxWriteClosed(c) \/ RxClosed(c) \/ \E ok \in BOOLEAN : RxPack(c, ok)

\* The Go scheduler runs every goroutine that can take a step, and a select
\* with a ready case does not wait.
Fairness ==
    /\ WF_vars(RunStep)
    /\ WF_vars(AccStep)
    /\ \A c \in Conns : WF_vars(TxStep(c)) /\ WF_vars(RxStep(c)) /\ WF_vars(BfDone(c))

FairSpec == Spec /\ Fairness

----
\* The Controller and its Client handles (package list/comm), whose requests
\* list/requests.go declares.

\* The bodies of the requests a Controller understands.
DumpRequest == [kind |-> "Dump"]

SetSelectRequest(index, hash) == [kind |-> "SetSelect", Index |-> index, Hash |-> hash]

NextRequest == [kind |-> "Next"]

SetAutoModeRequest(mode) == [kind |-> "SetAutoMode", AutoMode |-> mode]

\* Request: the body with its origin; ReplyTx is the Rx of the submitting handle.
Request(h, body) == [Origin |-> [ReplyTx |-> h], Body |-> body]

\* The request bodies a client may submit; Index ListLen is out of bounds.
Bodies ==
    {DumpRequest, NextRequest}
        \cup {SetSelectRequest(i, x) : i \in 0..ListLen, x \in Hashes}
        \cup {SetAutoModeRequest(m) : m \in AutoModes}

\* The lists a Controller may hold: ListLen items of different hashes.
Lists == {l \in [1..ListLen -> Hashes] : \A i, j \in 1..ListLen : l[i] = l[j] => i = j}

\* The Controller with its list, the root handle attached, nothing submitted.
ListInit ==
    /\ handles = {0}
    /\ reqQueue = <<>>
    /\ items \in Lists
    /\ selection = 0
    /\ autoMode = "off"
    /\ hRx = [h \in Handles |-> <<>>]
    /\ doneFires = [h \in Handles |-> 0]
    /\ emitSeq = 0
    /\ submitted = 0

\* Copy(): a new handle is attached; it fails once the Controller has shut down.
Copy(h) ==
    /\ ~CopyFails
    /\ h \notin handles
    /\ h = Cardinality(handles)
    /\ handles' = handles \cup {h}
    /\ UNCHANGED <<netVars, ctlShut, shutReqs, reqQueue, items, selection, autoMode,
                   hRx, doneFires, emitSeq, submitted>>

\* A handle submits a request; after the shutdown it is dropped.
Submit(h, body) ==
    /\ h \in handles
    /\ submitted < MaxReqs
    /\ submitted' = submitted + 1
    /\ reqQueue' = IF ctlShut THEN reqQueue ELSE Append(reqQueue, Request(h, body))
    /\ UNCHANGED <<netVars, ctlShut, shutReqs, handles, items, selection, autoMode,
                   hRx, doneFires, emitSeq>>

\* The hash of the item at a 0-based index ("none" out of bounds).
HashAt(index) == IF index < Len(items) THEN items[index + 1] ELSE "none"

\* The Response number emitSeq + 1 of the given kind.
Response(kind, payload) == [seq |-> emitSeq + 1, kind |-> kind, payload |-> payload]

\* Broadcast gone wrong: the Response goes to the requester alone.
BroadcastToRequesterOnly(r, resp) ==
    /\ hRx' = [hRx EXCEPT ![r.Origin.ReplyTx] = Append(@, resp)]
    /\ emitSeq' = emitSeq + 1

\* A broadcast: the Response is delivered on the Rx of every attached handle.
Broadcast(r, resp) ==
    /\ hRx' = [h \in Handles |-> IF h \in handles THEN Append(hRx[h], resp) ELSE hRx[h]]
    /\ emitSeq' = emitSeq + 1

\* A unicast: the Response is delivered on the requester's ReplyTx alone.
Unicast(r, resp) ==
    /\ hRx' = [hRx EXCEPT ![r.Origin.ReplyTx] = Append(@, resp)]
    /\ emitSeq' = emitSeq + 1

\* Dump gone wrong: the snapshot is broadcast.
ApplyDumpBroadcasts(r) ==
    /\ Broadcast(r, Response("dump", selection))
    /\ UNCHANGED <<selection, autoMode>>

\* Dump: a snapshot to the requester.
ApplyDump(r) ==
    /\ Unicast(r, Response("dump", selection))
    /\ UNCHANGED <<selection, autoMode>>

\* SetSelect gone wrong: the hash is not compared.
ApplySetSelectUnguarded(r) ==
    IF r.Body.Index < Len(items)
    THEN /\ selection' = r.Body.Index
         /\ Broadcast(r, Response("select", r.Body.Index))
         /\ UNCHANGED autoMode
    ELSE /\ Unicast(r, Response("reject", r.Body.Index))
         /\ UNCHANGED <<selection, autoMode>>

\* SetSelect: the index is selected if it is in bounds and the hash is that of
\* the item there; otherwise the requester gets a rejection.
ApplySetSelect(r) ==
    IF r.Body.Index < Len(items) /\ HashAt(r.Body.Index) = r.Body.Hash
    THEN /\ selection' = r.Body.Index
         /\ Broadcast(r, Response("select", r.Body.Index))
         /\ UNCHANGED autoMode
    ELSE /\ Unicast(r, Response("reject", r.Body.Index))
         /\ UNCHANGED <<selection, autoMode>>

\* The selection after Next: one on, staying at the end of the list.
Advance == IF selection + 1 < Len(items) THEN selection + 1 ELSE selection

\* Next: the selection advances; the result is broadcast in any case.
ApplyNext(r) ==
    /\ selection' = Advance
    /\ Broadcast(r, Response("select", Advance))
    /\ UNCHANGED autoMode

\* SetAutoMode: the policy changes and the change is broadcast.
ApplySetAutoMode(r) ==
    /\ autoMode' = r.Body.AutoMode
    /\ Broadcast(r, Response("automode", r.Body.AutoMode))
    /\ UNCHANGED selection

\* The Controller's loop takes the request at the head of its queue and
\* applies it in one step.
Process ==
    /\ ~ctlShut
    /\ reqQueue # <<>>
    /\ reqQueue' = Tail(reqQueue)
    /\ LET r == Head(reqQueue) IN
         CASE r.Body.kind = "Dump" -> ApplyDump(r)
           [] r.Body.kind = "SetSelect" -> ApplySetSelect(r)
           [] r.Body.kind = "Next" -> ApplyNext(r)
           [] r.Body.kind = "SetAutoMode" -> ApplySetAutoMode(r)
    /\ UNCHANGED <<netVars, ctlShut, shutReqs, handles, items, doneFires, submitted>>

\* Shutdown gone wrong: a repeated call fires the Done signals again.
ShutdownRefires ==
    /\ shutReqs < MaxShutdowns
    /\ shutReqs' = shutReqs + 1
    /\ ctlShut' = TRUE
    /\ doneFires' = [h \in Handles |-> IF h \in handles THEN doneFires[h] + 1
                                                        ELSE doneFires[h]]
    /\ UNCHANGED <<netVars, handles, reqQueue, items, selection, autoMode, hRx,
                   emitSeq, submitted>>

\* Shutdown(): the loop ends and the Done of every attached handle fires; a
\* call after that returns without effect.
Shutdown ==
    /\ shutReqs < MaxShutdowns
    /\ shutReqs' = shutReqs + 1
    /\ ctlShut' = TRUE
    /\ doneFires' = [h \in Handles |-> IF h \in handles /\ ~ctlShut THEN doneFires[h] + 1
                                                                     ELSE doneFires[h]]
    /\ UNCHANGED <<netVars, handles, reqQueue, items, selection, autoMode, hRx,
                   emitSeq, submitted>>

ListNext ==
    \/ \E h \in Handles : Copy(h)
    \/ \E h \in Handles, body \in Bodies : Submit(h, body)
    \/ Process
    \/ Shutdown

\* The Controller and its handles in use, the server as New made it.
ListStart == NetInit /\ ListInit

ListSpec == ListStart /\ [][ListNext]_vars

----
\* C1: in every interleaving the live-connection set is inserted into and
\* deleted from only by the goroutine running Run/mainLoop: a connection is
\* added by newClient in the accConn case of mainLoop, and removed by
\* hangUpClient in the clientHangUp case of mainLoop or in hangUpAllClients
\* after mainLoop has returned; no step of the acceptor or of a
\* per-connection goroutine changes the set.
ClientsChangedByRun ==
    clients' # clients =>
          \/ /\ runPc = "main"
             /\ MainAccConn
             /\ clients' = clients \cup {accHeld}
          \/ /\ runPc = "main"
             /\ \E c \in clients : MainHangUp(c) /\ clients' = clients \ {c}
          \/ /\ runPc = "hangUpAll"
             /\ \E c \in clients : RunHangUp(c) /\ clients' = clients \ {c}

C1_ClientsOwnedByRun == [][ClientsChangedByRun]_vars

\* A connection is registered while another, registered earlier, has been
\* removed from the set.
C1_Witness ==
    \E c, d \in Conns : /\ c \in clients
                        /\ d \notin clients
                        /\ txPc[d] # "none"

----
\* C2 as stated: on shutdown the server waits until all spawned goroutines
\* have finished and only then closes the listener, so whenever the listener
\* is closed the WaitGroup counter is zero.
C2_WaitsBeforeClosingListener == ln = "closed" => wg = 0

\* C2, amended: the main loop terminates, then done is closed, then every
\* connection still in the live set is hung up, then the listener is closed,
\* then Shutdown of the root handle is requested, and only then does the
\* server wait for the spawned goroutines; Run returns with the counter at
\* zero.
C2_ShutdownOrder ==
    /\ done => runPc \in {"hangUpAll", "shutdown", "wait", "returned"}
    /\ (runPc \in {"hangUpAll", "shutdown", "wait", "returned"} /\ ln # "failed") => done
    /\ ln = "closed" => (done /\ clients = {})
    /\ runPc \in {"shutdown", "wait", "returned"} => ln \in {"closed", "failed"}
    /\ shutReqs > 0 <=> runPc \in {"wait", "returned"}
    /\ runPc = "returned" => wg = 0

\* The Controller has shut down under a healthy listener and the server is
\* waiting, listener closed, while the acceptor and an adapter still run.
C2_Witness ==
    /\ runPc = "wait"
    /\ ln = "closed"
    /\ accPc = "accept"
    /\ \E c \in Conns : bfPc[c] \in {"run", "fwd"}

----
\* C3: for any number of registered connections, once the Controller is shut
\* down Run eventually returns with no server goroutine left: the acceptor and
\* the three goroutines of every connection have ended and the WaitGroup
\* counter is zero.
AllStopped ==
    /\ runPc = "returned"
    /\ wg = 0
    /\ accPc \in {"none", "exit"}
    /\ \A c \in Conns : /\ txPc[c] \in {"none", "exit"}
                        /\ rxPc[c] \in {"none", "exit"}
                        /\ bfPc[c] \in {"none", "exit"}

C3_ShutdownTerminates == ctlShut ~> AllStopped

\* Run has returned after every connection was registered and its three
\* goroutines ended.
C3_Witness ==
    /\ AllStopped
    /\ \A c \in Conns : txPc[c] = "exit" /\ rxPc[c] = "exit" /\ bfPc[c] = "exit"

----
\* Goroutine by goroutine: it stands at a channel operation and no step of
\* it is enabled.
AccBlocked ==
    \/ accPc = "sendErr" /\ ~ENABLED (MainAccErr \/ AccErrDone)
    \/ accPc = "sendConn" /\ ~ENABLED (MainAccConn \/ AccConnDone)

TxBlocked(c) == txPc[c] = "hangup" /\ ~ENABLED (MainHangUp(c) \/ TxHangUpDone(c))

RxBlocked(c) == rxPc[c] = "recv" /\ ~ENABLED (RxRecv(c) \/ RxClosed(c))

\* C4 as stated: every channel operation on which the acceptor, a socket
\* reader or a socket writer can block is raced against done, so once done is
\* closed none of them is blocked on a channel operation.
C4_AllRacedAgainstDone ==
    done => /\ ~AccBlocked
            /\ \A c \in Conns : ~TxBlocked(c) /\ ~RxBlocked(c)

\* C4, amended: the channel sends of the acceptor (accErr, accConn) and of
\* the socket reader goroutine (clientHangUp) are raced against done, so once
\* done is closed neither is blocked on its send; the socket writer's receive
\* on conBifrost.Rx is not raced against done: it is blocked exactly until the
\* adapter hands it a response or closes the channel.
C4_SendsRacedAgainstDone ==
    /\ done => (~AccBlocked /\ \A c \in Conns : ~TxBlocked(c))
    /\ \A c \in Conns :
         RxBlocked(c) <=> (rxPc[c] = "recv" /\ bfPc[c] = "run")

\* done is closed while the acceptor stands at its send of a connection and a
\* socket reader goroutine at its send of a hang-up request.
C4_Witness ==
    /\ done
    /\ accPc = "sendConn"
    /\ \E c \in Conns : txPc[c] = "hangup"

----
\* C5 as stated: when Accept has failed while the main loop is running, the
\* main loop receives the error and terminates: it leaves its loop only by
\* the accErr case.
MainLeavesByAcceptError ==
    (accPc = "sendErr" /\ runPc = "main" /\ runPc' # "main") => accPc' = "close"

C5_MainReceivesAcceptError == [][MainLeavesByAcceptError]_vars

\* The server has shut down after an accept failure.
AcceptFailureHandled ==
    /\ accPc = "exit"
    /\ runPc \in {"wait", "returned"}
    /\ done
    /\ clients = {}
    /\ ln = "closed"
    /\ ctlShut

\* C5, amended: an Accept failure while the main loop is running is fatal:
\* the acceptor terminates, after reporting the error on accErr or, when the
\* main loop has meanwhile returned on the Controller's Done, after seeing
\* done closed; the main loop terminates and the server closes done, hangs
\* up every live connection, closes the listener and shuts the Controller
\* down; no connection is accepted or registered after the failure.
NothingAcceptedAfterFailure ==
    accPc \in {"sendErr", "close", "exit"}
        => (nAccepted' = nAccepted /\ clients' \subseteq clients)

C5_AcceptFailureFatal ==
    /\ [][NothingAcceptedAfterFailure]_vars
    /\ (accPc = "sendErr" /\ runPc = "main") ~> AcceptFailureHandled

\* The main loop has just received the accept error, with a connection live.
C5_Witness ==
    /\ accPc = "close"
    /\ runPc = "closeDone"
    /\ ~done
    /\ clients # {}

----
\* C6: when the RunRx loop of a registered connection stops on a socket write
\* error while the server is still running, a hang-up request for that
\* connection is sent to the main loop: once the writer goroutine has ended,
\* the request is pending on clientHangUp.
WriteErrorRequestsHangUp ==
    \A c \in Conns :
        (RxWriteErr(c) /\ runPc = "main" /\ c \in clients) => txPc'[c] = "hangup"

C6_LoopFailureRequestsHangUp == [][WriteErrorRequestsHangUp]_vars

----
\* C7: processing a hang-up request for connection c closes only c's socket
\* and removes only c from the live set; every other registered connection
\* stays registered with its socket as it was, the main loop keeps running,
\* done stays open, the listener stays open and the Controller is not shut
\* down.
HangUpLeavesTheRest ==
    \A c \in Conns : MainHangUp(c) =>
          /\ conn'[c] = "closed"
          /\ clients' = clients \ {c}
          /\ \A d \in Conns \ {c} : conn'[d] = conn[d] /\ closes'[d] = closes[d]
          /\ runPc' = "main"
          /\ ~done'
          /\ ln' = "open"
          /\ ctlShut' = ctlShut
          /\ shutReqs' = 0

C7_HangUpIsolated == [][HangUpLeavesTheRest]_vars

\* One connection has been hung up on its request while another stays
\* registered, socket open, under a running server and Controller.
C7_Witness ==
    \E c, d \in Conns :
        /\ conn[c] = "closed"
        /\ txPc[c] \in {"wgdone", "exit"}
        /\ d \in clients
        /\ conn[d] = "open"
        /\ runPc = "main"
        /\ ~done
        /\ ~ctlShut

----
\* C8: when Copy of the root handle fails while an accepted connection is set
\* up, the connection's socket is closed, the connection is not added to the
\* live set, no per-connection goroutine is started, the WaitGroup counter is
\* unchanged and the main loop keeps running.
CopyFailureOnlyCloses ==
    (MainAccConn /\ CopyFails) =>
          /\ conn'[accHeld] = "closed"
          /\ closes'[accHeld] = 1
          /\ clients' = clients
          /\ wg' = wg
          /\ txPc' = txPc /\ rxPc' = rxPc /\ bfPc' = bfPc
          /\ runPc' = "main"

C8_CopyFailure == [][CopyFailureOnlyCloses]_vars

\* The main loop is running, done open, and a connection has been closed
\* without ever having had a goroutine: its Copy failed.
C8_Witness ==
    /\ runPc = "main"
    /\ ctlShut
    /\ \E c \in Conns : conn[c] = "closed" /\ txPc[c] = "none" /\ c \notin clients

----
\* C9: a connection the acceptor obtains after done has been closed is closed
\* by the acceptor at once (it is closed, or the acceptor still holds it at
\* the select whose done case closes it) and is never added to the live set;
\* no per-connection goroutine is started for it.
C9_LateConnClosed ==
    \A c \in lateConns :
        /\ c \notin clients
        /\ txPc[c] = "none" /\ rxPc[c] = "none" /\ bfPc[c] = "none"
        /\ \/ conn[c] = "closed" /\ closes[c] = 1
           \/ conn[c] = "open" /\ accPc = "sendConn" /\ accHeld = c

\* A connection accepted after done was closed has been closed.
C9_Witness == \E c \in lateConns : conn[c] = "closed"

----
\* C10: a malformed inbound line is not fatal: after a line that
\* LineToMessage rejects, the RunTx loop of the connection is reading again,
\* no hang-up request is issued and the connection stays in the live set.
MalformedLineReadOn ==
    \A c \in Conns :
        (TxReadLine(c, "malformed") /\ c \in clients)
            => (txPc'[c] = "read" /\ c \in clients')

C10_MalformedLineNonFatal == [][MalformedLineReadOn]_vars

----
\* C11: when a connection is hung up while the server and the Controller keep
\* running, its adapter loop terminates without waiting for the Controller to
\* shut down: once the socket is closed, the adapter's terminating step is
\* enabled.
C11_AdapterEndsOnHangUp ==
    \A c \in Conns :
        (conn[c] = "closed" /\ bfPc[c] \in {"run", "fwd"}) => ENABLED BfDone(c)

----
\* C16: the socket reader goroutine never blocks forever on its hang-up
\* request: while the request is pending, the main loop is still selecting,
\* or Run is about to close done, or done is closed; and the goroutine ends.
HangUpSendCanProceed ==
    \A c \in Conns : txPc[c] = "hangup" => (runPc \in {"main", "closeDone"} \/ done)

C16_HangUpSendTerminates ==
    /\ []HangUpSendCanProceed
    /\ \A c \in Conns : (txPc[c] = "hangup") ~> (txPc[c] = "exit")

\* A socket reader goroutine has ended although the main loop never took its
\* hang-up request: its connection was closed by hangUpAllClients.
C16_Witness ==
    \E c \in Conns : /\ txPc[c] = "exit"
                     /\ runPc = "hangUpAll"
                     /\ c \in clients

----
\* C17: every connection Accept returned is closed exactly once by the time
\* Run returns, whichever path it took; none is ever closed twice, none is
\* left open, and the live set is empty when Run returns.
C17_ClosedExactlyOnce ==
    /\ \A c \in Conns : closes[c] <= 1
    /\ runPc = "returned" =>
          /\ clients = {}
          /\ \A c \in 1..nAccepted : conn[c] = "closed" /\ closes[c] = 1

\* Run has returned after a registered connection and a connection accepted
\* after done was closed.
C17_Witness ==
    /\ runPc = "returned"
    /\ lateConns # {}
    /\ \E c \in Conns : txPc[c] = "exit"

----
\* The acceptor has closed accErr and accConn.
AccChansClosed == accPc = "exit"

\* C18: the acceptor closes accErr and accConn only after the main loop has
\* stopped selecting on them, so the main loop never receives the zero value
\* of a closed channel: whatever it receives on accConn is a connection
\* Accept returned.
C18_ChansClosedAfterMainLoop ==
    /\ (accPc = "close" \/ AccChansClosed) => runPc \notin {"start", "main"}
    /\ ENABLED MainAccConn => (accHeld \in 1..nAccepted /\ conn[accHeld] = "open")

\* The acceptor has closed its channels after the main loop received its
\* error, the listener still open.
C18_Witness ==
    /\ AccChansClosed
    /\ ln = "open"

----
\* C19: on every exit path of Run, Shutdown of the root handle is requested
\* exactly once, after the listener (if it was opened) has been closed and
\* before Run waits for the goroutines; and Run returns, also when the
\* Controller had shut down before.
ShutdownRequestedOnce ==
    /\ shutReqs <= 1
    /\ shutReqs = 1 <=> runPc \in {"wait", "returned"}
    /\ shutReqs = 1 => ln \in {"closed", "failed"}
    /\ runPc = "shutdown" => ln \in {"closed", "failed"}

C19_ShutdownOnEveryExit ==
    /\ []ShutdownRequestedOnce
    /\ (runPc \in {"closeDone", "hangUpAll", "shutdown"}) ~> (runPc = "returned")

\* Run has returned after an opened listener and an accepted connection.
C19_Witness ==
    /\ runPc = "returned"
    /\ shutReqs = 1
    /\ ln = "closed"
    /\ nAccepted > 0

----
\* C20: while the server has not shut down, the connection's RunRx loop
\* keeps taking Responses off the adapter's outbound channel, also after a
\* socket write error on that connection: after the error the loop is at its
\* receive again.
WriterDrainsAfterWriteError ==
    \A c \in Conns :
        (RxWriteErr(c) /\ runPc = "main" /\ ~ctlShut) => rxPc'[c] = "recv"

C20_WriterKeepsDraining == [][WriterDrainsAfterWriteError]_vars

----
\* A step in which the Controller's loop took the request at the head of its queue.
Processed == reqQueue # <<>> /\ reqQueue' = Tail(reqQueue)

\* The Response a processing step emitted on the Rx of handle h, if it is one.
Delivered(h) == hRx'[h] = Append(hRx[h], hRx'[h][Len(hRx'[h])])

\* The request at the head of the queue succeeds as a mutation.
Mutates(r) ==
    \/ r.Body.kind \in {"Next", "SetAutoMode"}
    \/ r.Body.kind = "SetSelect" /\ HashAt(r.Body.Index) = r.Body.Hash

SetSelectGuarded ==
    (Processed /\ Head(reqQueue).Body.kind = "SetSelect") =>
        LET r == Head(reqQueue) IN
          IF HashAt(r.Body.Index) = r.Body.Hash
          THEN selection' = r.Body.Index
          ELSE /\ UNCHANGED <<selection, autoMode, items, handles>>
               /\ Len(hRx'[r.Origin.ReplyTx]) = Len(hRx[r.Origin.ReplyTx]) + 1
               /\ Delivered(r.Origin.ReplyTx)
               /\ hRx'[r.Origin.ReplyTx][Len(hRx'[r.Origin.ReplyTx])].kind = "reject"
               /\ \A h \in Handles \ {r.Origin.ReplyTx} : hRx'[h] = hRx[h]

\* C12: whatever the clients have submitted, processing a SetSelect selects
\* its Index exactly when its Hash is the hash of the item at Index in that
\* very step; otherwise selection, auto mode and list stay and one rejection
\* is delivered, on the requester's Rx alone.
C12_SetSelectHashGuard == [][SetSelectGuarded]_vars

\* A stale SetSelect of an index in bounds was rejected to its requester alone
\* while another handle was attached, and a SetSelect of index 0 with the right
\* hash (Next never selects index 0) succeeded and reached both.
C12_Witness ==
    \E h \in handles, g \in handles :
        /\ h # g
        /\ Len(hRx[h]) = 2
        /\ hRx[h][1].kind = "reject" /\ hRx[h][1].payload < ListLen
        /\ hRx[h][2].kind = "select" /\ hRx[h][2].payload = 0
        /\ hRx[g] = <<hRx[h][2]>>

BroadcastReachesAll ==
    (Processed /\ Mutates(Head(reqQueue))) =>
        \E h0 \in handles :
            /\ Len(hRx'[h0]) = Len(hRx[h0]) + 1
            /\ hRx'[h0][Len(hRx'[h0])].seq = emitSeq + 1
            /\ \A h \in Handles :
                  hRx'[h] = IF h \in handles
                            THEN Append(hRx[h], hRx'[h0][Len(hRx'[h0])])
                            ELSE hRx[h]

RxInEmissionOrder ==
    \A h \in Handles : \A i, j \in 1..Len(hRx[h]) : i < j => hRx[h][i].seq < hRx[h][j].seq

\* C13: processing a successful SetSelect, a Next or a SetAutoMode delivers
\* one and the same new Response once on the Rx of every handle attached in
\* that step, and every Rx holds its Responses in the order of emission.
C13_MutationBroadcastOnce == [][BroadcastReachesAll]_vars /\ []RxInEmissionOrder

\* Two broadcasts reached a handle copied between them and the handles
\* attached before, in order.
C13_Witness ==
    /\ Cardinality(handles) = 2
    /\ Len(hRx[0]) = 2 /\ hRx[0][1].seq = 1 /\ hRx[0][2].seq = 2
    /\ Len(hRx[1]) = 1 /\ hRx[1][1].seq = 2
    /\ hRx[0][1].kind = "automode"

DumpIsUnicast ==
    (Processed /\ Head(reqQueue).Body.kind = "Dump") =>
        LET r == Head(reqQueue) IN
          /\ UNCHANGED <<selection, autoMode, items, handles>>
          /\ Len(hRx'[r.Origin.ReplyTx]) = Len(hRx[r.Origin.ReplyTx]) + 1
          /\ Delivered(r.Origin.ReplyTx)
          /\ hRx'[r.Origin.ReplyTx][Len(hRx'[r.Origin.ReplyTx])].kind = "dump"
          /\ \A h \in Handles \ {r.Origin.ReplyTx} : hRx'[h] = hRx[h]

\* C14: processing a Dump delivers its snapshot on the requester's Rx and on
\* no other handle's, and leaves selection, auto mode and list as they were.
C14_DumpNeverBroadcast == [][DumpIsUnicast]_vars

\* A copy received a snapshot while the root and another copy received nothing.
C14_Witness ==
    /\ handles = Handles
    /\ Len(hRx[1]) = 1 /\ hRx[1][1].kind = "dump"
    /\ hRx[0] = <<>> /\ hRx[2] = <<>>

DoneFiresOnce ==
    /\ \A h \in Handles : doneFires[h] <= 1
    /\ ctlShut => \A h \in handles : doneFires[h] = 1

NoResponseAfterDone == \A h \in Handles : doneFires[h] >= 1 => hRx'[h] = hRx[h]

\* C15: once the Controller is shut down the Done of the root handle and of
\* every copy has fired, no Done ever fires twice, and no step delivers a
\* Response on the Rx of a handle whose Done has fired.
C15_DoneFiresOnce == []DoneFiresOnce /\ [][NoResponseAfterDone]_vars

\* Shutdown was called twice with a copy attached and a request left in the
\* queue, and a request submitted afterwards was dropped.
C15_Witness ==
    /\ shutReqs = 2
    /\ Cardinality(handles) >= 2
    /\ Len(reqQueue) = 1
    /\ submitted = 2
    /\ emitSeq = 0
    /\ \A h \in handles : doneFires[h] = 1

====
